---- MODULE Spec2Model ----
(***************************************************************************)
(* PDF -> TXT (src/app.py): the extraction routine, the per-run batch      *)
(* loop with its page-separator post-processing and archive assembly, and  *)
(* the process-wide logger with the per-execution log buffer.              *)
(*                                                                         *)
(* A Python str is a sequence of one-character strings; a bytes value is   *)
(* a sequence of integers.  The PDF library is the environment: a document *)
(* is described by what the library reports about it (whether open()       *)
(* raises, is_encrypted, which password decrypt() accepts, what            *)
(* extract_text() returns or raises on each page).                         *)
(***************************************************************************)
EXTENDS Integers, Sequences, FiniteSets, TLC

VARIABLES
    executions,         \* script executions started in this process
    streams,            \* streams[k]: contents of the StringIO made by execution k
    log_stream,         \* the StringIO bound to the module-level name log_stream
    handler,            \* the StringIO the logger's StreamHandler writes to (0: none)
    pc,                 \* position of the running script ("idle": none running)
    uploaded_files,     \* widget values of the running execution
    password,
    show_page_headers,
    run,
    clear_logs,
    idx,                \* loop variable of the batch loop (1-based)
    num_pages,          \* locals of extract_text_from_pdf
    page_i,
    text_chunks,
    warnings,
    reads,              \* <<idx, i>> for every page.extract_text call of the run
    returned,           \* <<idx, full_text, warnings>> for every return of the extractor
    screen,             \* elements written to the page by the run, in order
    outputs,            \* the run's outputs list
    progress,           \* last value given to the progress bar, <<done, total>>
    archive,            \* entries of the zip offered for download (<<>>: none)
    panel               \* what the debug panel shows

vars == <<executions, streams, log_stream, handler, pc, uploaded_files, password,
          show_page_headers, run, clear_logs, idx, num_pages, page_i, text_chunks,
          warnings, reads, returned, screen, outputs, progress, archive, panel>>

(***************************************************************************)
(* Bounds of the model.                                                    *)
(***************************************************************************)
MaxPages == 2       \* pages of the single document of a page-content run
MaxFiles == 2       \* documents uploaded in one batch run
MaxRuns == 3        \* script executions of a logging session

(***************************************************************************)
(* Strings.                                                                *)
(***************************************************************************)
\* str.strip() and the regex class \s: the whitespace of the alphabet
Whitespace == {" ", "\n", "\t"}

\* the regex class \d
DigitChars == <<"0", "1", "2", "3", "4", "5", "6", "7", "8", "9">>

Range(s) == {s[k] : k \in 1..Len(s)}

IsDigit(c) == c \in Range(DigitChars)

\* str(i) for i >= 0, as the f-string formats a page number
RECURSIVE IntToStr(_)
IntToStr(n) ==
    IF n < 10 THEN <<DigitChars[n + 1]>>
    ELSE IntToStr(n \div 10) \o <<DigitChars[(n % 10) + 1]>>

\* "".join(chunks)
RECURSIVE Join(_)
Join(chunks) ==
    IF chunks = <<>> THEN <<>> ELSE Head(chunks) \o Join(Tail(chunks))

RECURSIVE LStrip(_)
LStrip(s) ==
    IF s # <<>> /\ Head(s) \in Whitespace THEN LStrip(Tail(s)) ELSE s

RECURSIVE RStrip(_)
RStrip(s) ==
    IF s # <<>> /\ s[Len(s)] \in Whitespace THEN RStrip(SubSeq(s, 1, Len(s) - 1)) ELSE s

\* str.strip()
Strip(s) == RStrip(LStrip(s))

\* s[i:].startswith(lit), positions 1-based
StartsWithAt(s, i, lit) ==
    /\ i + Len(lit) - 1 <= Len(s)
    /\ \A k \in 1..Len(lit) : s[i + k - 1] = lit[k]

\* first position >= i of s that holds no whitespace (Len(s) + 1 if none)
RECURSIVE SkipSpace(_, _)
SkipSpace(s, i) ==
    IF i <= Len(s) /\ s[i] \in Whitespace THEN SkipSpace(s, i + 1) ELSE i

\* first position >= i of s that holds no digit
RECURSIVE SkipDigits(_, _)
SkipDigits(s, i) ==
    IF i <= Len(s) /\ IsDigit(s[i]) THEN SkipDigits(s, i + 1) ELSE i

\* the literal text of the page header line, up to the page number
MarkerPrefix == <<"-", "-", "-", " ", "P", "á", "g", "i", "n", "a", " ">>

\* the literal text of the page header line, after the page number
MarkerSuffix == <<" ", "-", "-", "-">>

\* as PageHeader, but pages are counted from 0
PageHeader_ZeroBased(i, n) ==
    IF n > 1
    THEN <<"\n", "\n">> \o MarkerPrefix \o IntToStr(i - 1) \o MarkerSuffix \o <<"\n", "\n">>
    ELSE <<>>

\* f"\n\n--- Página {i} ---\n\n" if num_pages > 1 else ""
PageHeader(i, n) ==
    IF n > 1
    THEN <<"\n", "\n">> \o MarkerPrefix \o IntToStr(i) \o MarkerSuffix \o <<"\n", "\n">>
    ELSE <<>>

\* Position after a match of  --- Página \d+ ---  that starts at i, or 0 if
\* there is none.  \d+ is greedy and must be followed by a space, so it takes
\* the whole run of digits.
MarkerEnd(s, i) ==
    IF ~StartsWithAt(s, i, MarkerPrefix) THEN 0
    ELSE LET d == i + Len(MarkerPrefix)
             e == SkipDigits(s, d)
         IN  IF e > d /\ StartsWithAt(s, e, MarkerSuffix)
             THEN e + Len(MarkerSuffix) ELSE 0

\* Position after the match of  \n*\s*--- Página \d+ ---\s*\n*  that starts at
\* i, or 0.  \n*\s* takes the run of whitespace at i (the literal starts with
\* a non-space); after the literal \s* takes the whole run of whitespace and
\* \n* is left nothing.
SeparatorMatchEnd(s, i) ==
    LET m == MarkerEnd(s, SkipSpace(s, i))
    IN  IF m = 0 THEN 0 ELSE SkipSpace(s, m)

\* re.sub(pattern, "\n", s) from position i on: leftmost matches, left to right,
\* none overlapping
RECURSIVE ReSubFrom(_, _)
ReSubFrom(s, i) ==
    IF i > Len(s) THEN <<>>
    ELSE LET e == SeparatorMatchEnd(s, i)
         IN  IF e > 0 THEN <<"\n">> \o ReSubFrom(s, e)
             ELSE <<s[i]>> \o ReSubFrom(s, i + 1)

\* re.sub(r"\n*\s*--- Página \d+ ---\s*\n*", "\n", text).strip()
RemovePageHeaders(text) == Strip(ReSubFrom(text, 1))

UpperChars ==
    <<"A", "B", "C", "D", "E", "F", "G", "H", "I", "J", "K", "L", "M",
      "N", "O", "P", "Q", "R", "S", "T", "U", "V", "W", "X", "Y", "Z">>

LowerChars ==
    <<"a", "b", "c", "d", "e", "f", "g", "h", "i", "j", "k", "l", "m",
      "n", "o", "p", "q", "r", "s", "t", "u", "v", "w", "x", "y", "z">>

IndexIn(table, c) == CHOOSE k \in 1..Len(table) : table[k] = c

\* the UTF-8 encoding of one character of the alphabet: its code point in one
\* byte for ASCII, two bytes for U+00E1
EncodeChar(c) ==
    IF c = "á" THEN <<195, 161>>
    ELSE IF c = "\n" THEN <<10>>
    ELSE IF c = "\t" THEN <<9>>
    ELSE IF c = " " THEN <<32>>
    ELSE IF c = "-" THEN <<45>>
    ELSE IF c = "." THEN <<46>>
    ELSE IF c \in Range(DigitChars) THEN <<47 + IndexIn(DigitChars, c)>>
    ELSE IF c \in Range(UpperChars) THEN <<64 + IndexIn(UpperChars, c)>>
    ELSE <<96 + IndexIn(LowerChars, c)>>

\* text.encode("utf-8"); writestr of zipfile encodes a str the same way
RECURSIVE EncodeUtf8(_)
EncodeUtf8(text) ==
    IF text = <<>> THEN <<>> ELSE EncodeChar(Head(text)) \o EncodeUtf8(Tail(text))

\* position of the last "." of name, 0 if it has none
RECURSIVE LastDot(_, _)
LastDot(name, k) ==
    IF k = 0 THEN 0 ELSE IF name[k] = "." THEN k ELSE LastDot(name, k - 1)

\* pdf_name.rsplit(".", 1)[0]
RSplitBase(pdf_name) ==
    LET d == LastDot(pdf_name, Len(pdf_name))
    IN  IF d = 0 THEN pdf_name ELSE SubSeq(pdf_name, 1, d - 1)

\* as to_txt_filename, but the name is cut at its first "."
to_txt_filename_FirstDot(pdf_name) ==
    LET d == IF \E k \in 1..Len(pdf_name) : pdf_name[k] = "."
             THEN CHOOSE k \in 1..Len(pdf_name) :
                      pdf_name[k] = "." /\ \A j \in 1..(k - 1) : pdf_name[j] # "."
             ELSE Len(pdf_name) + 1
    IN  SubSeq(pdf_name, 1, d - 1) \o <<".", "t", "x", "t">>

\* f"{base}.txt"
to_txt_filename(pdf_name) == RSplitBase(pdf_name) \o <<".", "t", "x", "t">>

(***************************************************************************)
(* Records written by the program: warnings, log lines, page elements.     *)
(***************************************************************************)
\* as PageWarning, but pages are counted from 0
PageWarning_ZeroBased(i) == [kind |-> "page_without_text", page |-> i - 1]

\* f"Página {i}: no se pudo extraer texto (puede ser escaneada/imagen)."
PageWarning(i) == [kind |-> "page_without_text", page |-> i]

\* "No se extrajo texto. El PDF podría ser escaneado/imagen sin OCR."
EmptyWarning == [kind |-> "no_text_extracted", page |-> 0]

\* one line of the log: level, message, and the file name or number the
\* message is formatted with
LogLine(level, msg, name, n) == [level |-> level, msg |-> msg, name |-> name, n |-> n]

\* one element on the page
Element(widget, name, msg, value, data) ==
    [widget |-> widget, name |-> name, msg |-> msg, value |-> value, data |-> data]

\* the two ValueError messages of the extractor
MsgIncorrectPassword == "Contraseña incorrecta para el PDF protegido."
MsgPasswordRequired == "El PDF está protegido. Proporciona una contraseña."

\* the generic message shown for any other exception
MsgProcessingError == "Error al procesar. Revisa logs."

\* log_stream.getvalue() or "Sin logs aún."
PanelText(value) ==
    IF value = <<>> THEN <<LogLine("NONE", "Sin logs aún.", <<>>, 0)>> ELSE value

(***************************************************************************)
(* Documents, as the PDF library reports them.                             *)
(***************************************************************************)
\* page.extract_text(...) returns a str
TextPage(t) == [result |-> "text", text |-> t]

\* page.extract_text(...) returns None
NoTextPage == [result |-> "none", text |-> <<>>]

\* page.extract_text(...) raises
BadPage == [result |-> "raises", text |-> <<>>]

\* an uploaded file: its name, whether pdfplumber.open succeeds on its bytes,
\* pdf.is_encrypted, the password pdf.decrypt accepts, and pdf.pages
Document(name, opens, encrypted, key, pages) ==
    [name |-> name, opens |-> opens, is_encrypted |-> encrypted, key |-> key,
     pages |-> pages]

Hello == <<"H", "e", "l", "l", "o">>
World == <<"W", "o", "r", "l", "d">>
Blank == <<" ">>
Padded == <<" ", "x", "\n">>
MarkerLine == MarkerPrefix \o <<"7">> \o MarkerSuffix
Quoted == <<"a", "\n">> \o MarkerPrefix \o <<"2">> \o MarkerSuffix \o <<"\n", "b">>

\* what a page of a page-content run may yield
PageValues ==
    {NoTextPage} \cup {TextPage(t) : t \in {<<>>, Hello, World, Blank, Padded, MarkerLine, Quoted}}

SeqsUpTo(S, n) == UNION {[1..k -> S] : k \in 0..n}

NameA == <<"a", ".", "p", "d", "f">>
NameUpper == <<"a", ".", "P", "D", "F">>
NameNoDot == <<"b">>
NameTwoDots == <<"c", ".", "d", ".", "p", "d", "f">>

\* page-content runs: one unencrypted document, every page content
PageUploads == {<<Document(NameA, TRUE, FALSE, "", ps)>> : ps \in SeqsUpTo(PageValues, MaxPages)}

BatchNames == {NameA, NameUpper, NameNoDot, NameTwoDots}

\* the documents of a batch run
BatchDocuments ==
    UNION {{Document(n, TRUE, FALSE, "", <<TextPage(Hello), TextPage(World)>>),
            Document(n, TRUE, FALSE, "", <<NoTextPage>>),
            Document(n, TRUE, TRUE, "pw", <<TextPage(Hello)>>),
            Document(n, FALSE, FALSE, "", <<>>),
            Document(n, TRUE, FALSE, "", <<TextPage(Hello), BadPage>>)} : n \in BatchNames}

\* widget keys are made of the file names: the files of a run have distinct names
DistinctNames(files) ==
    \A j, k \in 1..Len(files) : files[j].name = files[k].name => j = k

BatchUploads == {fs \in SeqsUpTo(BatchDocuments, MaxFiles) : DistinctNames(fs)}

\* the uploads of a logging session
LogUploads ==
    {<<>>,
     <<Document(NameA, TRUE, FALSE, "", <<TextPage(Hello)>>)>>,
     <<Document(NameNoDot, TRUE, TRUE, "pw", <<NoTextPage>>)>>}

Passwords == {"", "pw", "bad"}

Buttons == {"run", "clear", "none"}

\* as PageChunks, but a page without text is formatted into a chunk
PageChunks_FormatsNone(chunks, i, n, page) ==
    IF page.result = "none"
    THEN Append(chunks, PageHeader(i, n) \o <<"N", "o", "n", "e">>)
    ELSE Append(chunks, PageHeader(i, n) \o page.text)

\* text_chunks after the loop body ran on page i of n: a page without text is
\* skipped, the text of any other page is appended behind its header
PageChunks(chunks, i, n, page) ==
    IF page.result = "none" THEN chunks
    ELSE Append(chunks, PageHeader(i, n) \o page.text)

\* "".join(text_chunks).strip()
FullText(chunks) == Strip(Join(chunks))

\* as FinalWarnings, but an empty text is not warned about
FinalWarnings_Silent(full_text, warns) == warns

\* the warnings returned: one more when the text is empty
FinalWarnings(full_text, warns) ==
    IF full_text = <<>> THEN Append(warns, EmptyWarning) ELSE warns

\* the text shown and offered for download
DisplayText(full_text, headers) ==
    IF ~headers THEN RemovePageHeaders(full_text) ELSE full_text

(***************************************************************************)
(* The program.                                                            *)
(***************************************************************************)
Init ==
    /\ executions = 0
    /\ streams = <<>>
    /\ log_stream = 0
    /\ handler = 0
    /\ pc = "idle"
    /\ uploaded_files = <<>>
    /\ password = ""
    /\ show_page_headers = TRUE
    /\ run = FALSE
    /\ clear_logs = FALSE
    /\ idx = 0
    /\ num_pages = 0
    /\ page_i = 0
    /\ text_chunks = <<>>
    /\ warnings = <<>>
    /\ reads = <<>>
    /\ returned = <<>>
    /\ screen = <<>>
    /\ outputs = <<>>
    /\ progress = <<0, 0>>
    /\ archive = <<>>
    /\ panel = <<>>

\* the logger emits lines: they go to the stream its handler was made with
Emit(ss, lines) == [ss EXCEPT ![handler] = @ \o lines]

\* One execution of the script up to the batch loop: the user's widget values
\* are files, pw, headers and the button pressed (none on a page load or when
\* another widget changed).  The first execution of a session is the page
\* load.
ExecuteScript(files, pw, headers, button) ==
    /\ pc = "idle"
    /\ executions = 0 => files = <<>> /\ pw = "" /\ headers /\ button = "none"
    /\ executions' = executions + 1
    /\ LET fresh == Len(streams) + 1
       IN  /\ log_stream' = fresh
           /\ handler' = IF handler = 0 THEN fresh ELSE handler
           /\ streams' = [Append(streams, <<>>) EXCEPT
                             ![fresh] = IF button = "clear" THEN <<>> ELSE @]
    /\ uploaded_files' = files
    /\ password' = pw
    /\ show_page_headers' = headers
    /\ run' = (button = "run")
    /\ clear_logs' = (button = "clear")
    /\ idx' = 1
    /\ num_pages' = 0
    /\ page_i' = 0
    /\ text_chunks' = <<>>
    /\ warnings' = <<>>
    /\ reads' = <<>>
    /\ returned' = <<>>
    /\ outputs' = <<>>
    /\ archive' = <<>>
    /\ progress' = <<0, Len(files)>>
    /\ screen' = IF button = "run" /\ files = <<>>
                 THEN <<Element("warning", <<>>, "Sube al menos un archivo PDF.", <<>>, <<>>)>> ELSE <<>>
    /\ pc' = IF button = "run" /\ files # <<>> THEN "document" ELSE "logs"
    /\ UNCHANGED panel

\* the title written for the document being processed
Title(up) == Element("title", up.name, "", <<>>, <<>>)

\* except ValueError as ve: the message shown and the line logged, after the
\* extractor logged the failure
ValueErrorLines(up, msg) ==
    <<LogLine("ERROR", "Fallo durante la extracción.", <<>>, 0),
      LogLine("ERROR", msg, up.name, 0)>>

\* except Exception: the line logged, after the extractor logged the failure
ExceptionLines(up) ==
    <<LogLine("ERROR", "Fallo durante la extracción.", <<>>, 0),
      LogLine("ERROR", "Error inesperado.", up.name, 0)>>

\* progress.progress(idx / len(uploaded_files)) and the step of the for loop
NextDocument ==
    /\ progress' = <<idx, Len(uploaded_files)>>
    /\ idx' = idx + 1
    /\ pc' = IF idx < Len(uploaded_files) THEN "document" ELSE "archive"

\* as Caught, but the failure leaves the loop
Caught_EndsLoop(shown, lines) ==
    /\ screen' = screen \o shown
    /\ streams' = Emit(streams, lines)
    /\ pc' = "archive"
    /\ UNCHANGED <<outputs, returned, idx, progress>>

\* the extractor raised: the except clause of the batch loop shows the error
\* and logs it, and the loop goes on
Caught(shown, lines) ==
    /\ screen' = screen \o shown
    /\ streams' = Emit(streams, lines)
    /\ NextDocument
    /\ UNCHANGED <<outputs, returned>>

\* as Opening, but the result of pdf.decrypt is not looked at
Opening_IgnoresDecrypt(up, pw) ==
    IF ~up.opens THEN "corrupt"
    ELSE IF ~up.is_encrypted THEN "open"
    ELSE IF pw = "" THEN "protected"
    ELSE "open"

\* what happens at the opening of a document: "corrupt", "protected",
\* "incorrect" or "open"
Opening(up, pw) ==
    IF ~up.opens THEN "corrupt"
    ELSE IF ~up.is_encrypted THEN "open"
    ELSE IF pw = "" THEN "protected"
    ELSE IF up.key # pw THEN "incorrect"
    ELSE "open"

\* The loop body up to the page loop: the title, the opening of the document
\* and the resolution of its encryption.
OpenDocument ==
    /\ pc = "document"
    /\ LET up == uploaded_files[idx]
           how == Opening(up, password)
           cifrado == IF up.opens /\ up.is_encrypted
                      THEN <<LogLine("INFO", "El PDF está cifrado.", <<>>, 0)>> ELSE <<>>
       IN  CASE how = "corrupt" ->
                  /\ Caught(<<Title(up), Element("error", up.name, MsgProcessingError, <<>>, <<>>)>>,
                            ExceptionLines(up))
                  /\ UNCHANGED <<num_pages, page_i, text_chunks, warnings>>
             [] how = "protected" ->
                  /\ Caught(<<Title(up), Element("error", up.name, MsgPasswordRequired, <<>>, <<>>)>>,
                            cifrado \o ValueErrorLines(up, MsgPasswordRequired))
                  /\ UNCHANGED <<num_pages, page_i, text_chunks, warnings>>
             [] how = "incorrect" ->
                  /\ Caught(<<Title(up), Element("error", up.name, MsgIncorrectPassword, <<>>, <<>>)>>,
                            cifrado \o ValueErrorLines(up, MsgIncorrectPassword))
                  /\ UNCHANGED <<num_pages, page_i, text_chunks, warnings>>
             [] OTHER ->
                  /\ screen' = Append(screen, Title(up))
                  /\ streams' = Emit(streams,
                         cifrado
                         \o (IF up.is_encrypted
                             THEN <<LogLine("INFO", "Desencriptado con la contraseña proporcionada.", <<>>, 0)>>
                             ELSE <<>>)
                         \o <<LogLine("INFO", "Páginas detectadas", <<>>, Len(up.pages))>>)
                  /\ num_pages' = Len(up.pages)
                  /\ page_i' = 1
                  /\ text_chunks' = <<>>
                  /\ warnings' = <<>>
                  /\ pc' = "pages"
                  /\ UNCHANGED <<idx, progress, outputs, returned>>
    /\ UNCHANGED <<executions, log_stream, handler, uploaded_files, password,
                   show_page_headers, run, clear_logs, reads, archive, panel>>

\* One iteration of the page loop.
ReadPage ==
    /\ pc = "pages"
    /\ page_i <= num_pages
    /\ LET up == uploaded_files[idx]
           page == up.pages[page_i]
       IN  /\ reads' = Append(reads, <<idx, page_i>>)
           /\ CASE page.result = "raises" ->
                     /\ Caught(<<Element("error", up.name, MsgProcessingError, <<>>, <<>>)>>,
                               ExceptionLines(up))
                     /\ UNCHANGED <<page_i, text_chunks, warnings>>
                [] page.result = "none" ->
                     /\ warnings' = Append(warnings, PageWarning(page_i))
                     /\ streams' = Emit(streams,
                            <<LogLine("WARNING", "sin texto extraíble", <<>>, page_i)>>)
                     /\ text_chunks' = PageChunks(text_chunks, page_i, num_pages, page)
                     /\ page_i' = page_i + 1
                     /\ UNCHANGED <<screen, idx, progress, pc, outputs, returned>>
                [] OTHER ->
                     /\ text_chunks' = PageChunks(text_chunks, page_i, num_pages, page)
                     /\ page_i' = page_i + 1
                     /\ UNCHANGED <<warnings, streams, screen, idx, progress, pc, outputs,
                                    returned>>
    /\ UNCHANGED <<executions, log_stream, handler, uploaded_files, password,
                   show_page_headers, run, clear_logs, num_pages, archive, panel>>

\* The end of the extractor and the rest of the loop body: the joined and
\* stripped text, the warning for an empty text, the removal of the page
\* headers when the user turned them off, the text area, the download button,
\* the warnings and the entry of outputs.  (The copy button is never True in
\* the execution that draws it.)
FinishDocument ==
    /\ pc = "pages"
    /\ page_i > num_pages
    /\ LET up == uploaded_files[idx]
           full_text == FullText(text_chunks)
           warns == FinalWarnings(full_text, warnings)
           text == DisplayText(full_text, show_page_headers)
           txt_fname == to_txt_filename(up.name)
       IN  /\ returned' = Append(returned, <<idx, full_text, warns>>)
           /\ screen' = screen
                  \o <<Element("text_area", up.name, "", text, <<>>),
                       Element("download", txt_fname, "text/plain", <<>>, EncodeUtf8(text))>>
                  \o (IF warns # <<>>
                      THEN <<Element("warnings", up.name, "", <<>>, <<>>)>> ELSE <<>>)
           /\ outputs' = Append(outputs, <<txt_fname, text, warns>>)
           /\ streams' = Emit(streams,
                  (IF full_text = <<>>
                   THEN <<LogLine("WARNING", "Extracción vacía", <<>>, 0)>> ELSE <<>>)
                  \o <<LogLine("INFO", "Procesado OK", up.name, 0)>>)
    /\ NextDocument
    /\ UNCHANGED <<executions, log_stream, handler, uploaded_files, password,
                   show_page_headers, run, clear_logs, num_pages, page_i, text_chunks,
                   warnings, reads, archive, panel>>

\* zf.writestr(fname, text) for every entry of outputs, in order
ZipEntries(outs) ==
    [k \in 1..Len(outs) |-> [name |-> outs[k][1], data |-> EncodeUtf8(outs[k][2])]]

\* After the loop: the archive, offered when more than one document succeeded.
OfferArchive ==
    /\ pc = "archive"
    /\ archive' = IF Len(outputs) > 1 THEN ZipEntries(outputs) ELSE <<>>
    /\ pc' = "logs"
    /\ UNCHANGED <<executions, streams, log_stream, handler, uploaded_files, password,
                   show_page_headers, run, clear_logs, idx, num_pages, page_i,
                   text_chunks, warnings, reads, returned, screen, outputs, progress,
                   panel>>

\* The debug panel, the last statement of the script.
RenderLogs ==
    /\ pc = "logs"
    /\ panel' = PanelText(streams[log_stream])
    /\ pc' = "idle"
    /\ UNCHANGED <<executions, streams, log_stream, handler, uploaded_files, password,
                   show_page_headers, run, clear_logs, idx, num_pages, page_i,
                   text_chunks, warnings, reads, returned, screen, outputs, progress,
                   archive>>

\* the page load and one interaction of the user, over page contents and
\* batches
Interact ==
    /\ executions < 2
    /\ \E files \in PageUploads \cup BatchUploads, pw \in Passwords,
          headers \in BOOLEAN, button \in Buttons :
           ExecuteScript(files, pw, headers, button)

\* the executions of a logging session
InteractAgain ==
    /\ executions < MaxRuns
    /\ \E files \in LogUploads, pw \in {"", "pw"}, button \in Buttons :
           ExecuteScript(files, pw, TRUE, button)

Next == Interact \/ OpenDocument \/ ReadPage \/ FinishDocument \/ OfferArchive \/ RenderLogs

Spec == Init /\ [][Next]_vars

NextSession ==
    InteractAgain \/ OpenDocument \/ ReadPage \/ FinishDocument \/ OfferArchive \/ RenderLogs

SpecSession == Init /\ [][NextSession]_vars

(***************************************************************************)
(* Vocabulary of the properties.                                           *)
(***************************************************************************)
\* the run has finished the loop body for document k
Processed(k) == run /\ k \in 1..Len(uploaded_files) /\ k < idx

\* the batch loop of a run over at least one document is over
LoopOver == run /\ uploaded_files # <<>> /\ pc \in {"archive", "logs", "idle"}

\* the document is encrypted and the password typed does not unlock it
Locked(up, pw) == up.opens /\ up.is_encrypted /\ (pw = "" \/ pw # up.key)

\* the library opens the document, unlocks it and reads every page of it
Readable(up, pw) ==
    /\ up.opens
    /\ ~Locked(up, pw)
    /\ \A i \in 1..Len(up.pages) : up.pages[i].result # "raises"

\* the elements of the page of a kind, in order
Shown(widget) == SelectSeq(screen, LAMBDA e : e.widget = widget)

\* the indexes of the readable documents of the run, in upload order
RECURSIVE ReadableUpTo(_)
ReadableUpTo(k) ==
    IF k = 0 THEN <<>>
    ELSE IF Readable(uploaded_files[k], password)
         THEN Append(ReadableUpTo(k - 1), k) ELSE ReadableUpTo(k - 1)

\* the lines the logger has emitted
Logged == IF handler = 0 THEN {} ELSE Range(streams[handler])

(***************************************************************************)
(* C1.  An encrypted document whose password is missing (or empty) or      *)
(* wrong fails with the ValueError of the access check before any page is  *)
(* read: the page loop is never entered for it, no page of it is           *)
(* extracted, the extractor returns nothing for it, and neither a text nor *)
(* a warning of it is shown; the error shown is the ValueError's message.  *)
(***************************************************************************)
C1_AccessDenied ==
    /\ (pc = "pages" => ~Locked(uploaded_files[idx], password))
    /\ \A k \in 1..Len(uploaded_files) :
          (Processed(k) /\ Locked(uploaded_files[k], password)) =>
              LET up == uploaded_files[k]
                  msg == IF password = "" THEN MsgPasswordRequired ELSE MsgIncorrectPassword
              IN  /\ \E e \in Range(screen) :
                        e.widget = "error" /\ e.name = up.name /\ e.msg = msg
                  /\ \A r \in Range(reads) : r[1] # k
                  /\ \A r \in Range(returned) : r[1] # k
                  /\ \A e \in Range(screen) :
                        e.name = up.name => e.widget \in {"title", "error"}

\* a run ended in which an encrypted document met an empty password
C1_Witness ==
    /\ pc = "idle"
    /\ password = ""
    /\ \E k \in 1..Len(uploaded_files) :
          Processed(k) /\ uploaded_files[k].is_encrypted

(***************************************************************************)
(* C2.  A failing document never ends the batch loop: when the loop is     *)
(* over every uploaded document has been processed exactly once, in upload *)
(* order; every document that failed has one error message on the page and *)
(* an error line in the log, and every document that succeeded has its     *)
(* text and download on the page and its entry in outputs, in order,       *)
(* whatever happened to the documents before and after it.                 *)
(***************************************************************************)
C2_BatchSurvivesFailures ==
    LoopOver =>
        LET n == Len(uploaded_files)
            ok == ReadableUpTo(n)
        IN  /\ idx = n + 1
            /\ progress = <<n, n>>
            /\ Len(Shown("title")) = n
            /\ \A k \in 1..n : Shown("title")[k].name = uploaded_files[k].name
            /\ Len(outputs) = Len(ok)
            /\ Len(Shown("text_area")) = Len(ok)
            /\ Len(Shown("download")) = Len(ok)
            /\ \A j \in 1..Len(ok) :
                  /\ Shown("text_area")[j].name = uploaded_files[ok[j]].name
                  /\ Shown("text_area")[j].value = outputs[j][2]
                  /\ Shown("download")[j].name = outputs[j][1]
                  /\ \E r \in Range(returned) : r[1] = ok[j]
            /\ Len(Shown("error")) = n - Len(ok)
            /\ \A k \in 1..n :
                  ~Readable(uploaded_files[k], password) =>
                      /\ Cardinality({j \in 1..Len(screen) :
                             screen[j].widget = "error"
                             /\ screen[j].name = uploaded_files[k].name}) = 1
                      /\ \E l \in Logged :
                             l.level = "ERROR" /\ l.name = uploaded_files[k].name

\* a run ended in which a document succeeded after another one had failed
C2_Witness ==
    /\ pc = "idle"
    /\ LoopOver
    /\ Len(uploaded_files) = 2
    /\ ~Readable(uploaded_files[1], password)
    /\ Readable(uploaded_files[2], password)
    /\ Len(outputs) = 1

\* the entries the extractor returned for document k
ReturnedFor(k) == {r \in Range(returned) : r[1] = k}

\* the pages of the document on which extract_text returned None
PagesWithoutText(up) == {i \in 1..Len(up.pages) : up.pages[i].result = "none"}

\* the calls of extract_text on pages of document k, in order
ReadsOf(k) == SelectSeq(reads, LAMBDA r : r[1] = k)

\* the text area drawn for the document
TextAreaOf(up) == {e \in Range(screen) : e.widget = "text_area" /\ e.name = up.name}

\* the string has a character that is no whitespace
NonBlank(t) == \E c \in Range(t) : c \notin Whitespace

\* a line  --- Página <digits> ---  occurs in the string
ContainsMarker(t) == \E i \in 1..Len(t) : MarkerEnd(t, i) > 0

(***************************************************************************)
(* C4.  When extract_text returns None on every page of a document, the    *)
(* extractor returns (it does not fail), the text returned is empty, and   *)
(* the warnings are the page warning of every page, in page order,         *)
(* followed by the one warning that no text was extracted.                 *)
(***************************************************************************)
C4_NoPageHasText ==
    \A k \in 1..Len(uploaded_files) :
        LET up == uploaded_files[k]
            n == Len(up.pages)
        IN  (Processed(k) /\ Readable(up, password) /\ PagesWithoutText(up) = 1..n) =>
                /\ ReturnedFor(k) # {}
                /\ \A r \in ReturnedFor(k) :
                      /\ r[2] = <<>>
                      /\ r[3] = [i \in 1..n |-> [kind |-> "page_without_text", page |-> i]]
                                \o <<[kind |-> "no_text_extracted", page |-> 0]>>

\* a two-page document without any text has been extracted
C4_Witness ==
    /\ pc = "idle"
    /\ \E r \in Range(returned) :
          LET up == uploaded_files[r[1]]
          IN  Len(up.pages) = 2 /\ PagesWithoutText(up) = {1, 2} /\ Len(r[3]) = 3

(***************************************************************************)
(* C10.  Every successful extraction is one pass over the pages:           *)
(* extract_text is called once on each page, in increasing page order, and *)
(* the extractor returns once.  The warnings returned are empty exactly    *)
(* when every page yielded text and the stripped text is not empty;        *)
(* otherwise they are the page warnings of the pages without text, in      *)
(* increasing page order, followed (last) by at most one warning that no   *)
(* text was extracted.                                                     *)
(***************************************************************************)
C10_OnePassWarnings ==
    /\ (pc = "pages" =>
           ReadsOf(idx) = [i \in 1..(page_i - 1) |-> <<idx, i>>])
    /\ \A k \in 1..Len(uploaded_files) :
          LET up == uploaded_files[k]
              n == Len(up.pages)
          IN  (Processed(k) /\ Readable(up, password)) =>
                  /\ Cardinality(ReturnedFor(k)) = 1
                  /\ Len(SelectSeq(returned, LAMBDA r : r[1] = k)) = 1
                  /\ ReadsOf(k) = [i \in 1..n |-> <<k, i>>]
                  /\ \A r \in ReturnedFor(k) :
                        LET warns == r[3]
                            m == Cardinality(PagesWithoutText(up))
                        IN  /\ (warns = <<>>) <=> (PagesWithoutText(up) = {} /\ r[2] # <<>>)
                            /\ Len(warns) \in {m, m + 1}
                            /\ \A j \in 1..m :
                                  /\ warns[j].kind = "page_without_text"
                                  /\ warns[j].page \in PagesWithoutText(up)
                                  /\ j > 1 => warns[j - 1].page < warns[j].page
                            /\ Len(warns) = m + 1 => warns[m + 1].kind = "no_text_extracted"

\* a document with a page without text and a page with text has been extracted
C10_Witness ==
    /\ pc = "idle"
    /\ \E r \in Range(returned) :
          LET up == uploaded_files[r[1]]
          IN  /\ Len(up.pages) = 2
              /\ PagesWithoutText(up) = {1}
              /\ r[2] # <<>>
              /\ Len(r[3]) = 1

\* every page of the document yielded a text
AllPagesHaveText(up) == \A i \in 1..Len(up.pages) : up.pages[i].result = "text"

\* the header line of page i with the blank lines around it, spelled out
HeaderLine(digits) ==
    <<"\n", "\n", "-", "-", "-", " ", "P", "á", "g", "i", "n", "a", " ">>
    \o digits \o <<" ", "-", "-", "-", "\n", "\n">>

\* the page texts from page i on, each behind its header line
RECURSIVE Headered(_, _)
Headered(pages, i) ==
    IF i > Len(pages) THEN <<>>
    ELSE HeaderLine(IntToStr(i)) \o pages[i].text \o Headered(pages, i + 1)

\* the two-page document of the example: "Hello", then "World"
HelloWorldPages == <<TextPage(Hello), TextPage(World)>>

RECURSIVE PiecesFrom(_, _, _)
PiecesFrom(s, i, cur) ==
    IF i > Len(s) THEN <<cur>>
    ELSE LET e == MarkerEnd(s, i)
         IN  IF e > 0 THEN <<cur>> \o PiecesFrom(s, e, <<>>)
             ELSE PiecesFrom(s, i + 1, Append(cur, s[i]))

\* the number of segments of the text split on the header lines: the
\* stretches that are not blank
Segments(text) ==
    LET ps == PiecesFrom(text, 1, <<>>)
    IN  Cardinality({j \in 1..Len(ps) : NonBlank(ps[j])})

\* the document is not encrypted, opens, and has at least one page
PlainDocument(up) == up.opens /\ ~up.is_encrypted /\ Len(up.pages) >= 1

(***************************************************************************)
(* C3 as stated.  For every unencrypted document of N >= 1 pages the text  *)
(* returned, split on the header lines, has at most N segments, and as     *)
(* many as there are pages that yielded a non-empty text.                  *)
(***************************************************************************)
C3_SegmentsOfNonEmptyPages ==
    \A r \in Range(returned) :
        LET up == uploaded_files[r[1]]
        IN  PlainDocument(up) =>
                /\ Segments(r[2]) <= Len(up.pages)
                /\ Segments(r[2]) =
                      Cardinality({i \in 1..Len(up.pages) :
                          up.pages[i].result = "text" /\ up.pages[i].text # <<>>})

(***************************************************************************)
(* C3 as amended.  For every unencrypted document of N >= 1 pages whose    *)
(* pages can all be read the extraction succeeds, and when no page text    *)
(* itself holds a line "--- Página n ---" the text returned, split on the  *)
(* header lines, has at most N segments, and as many as there are pages    *)
(* that yielded a text with a character that is no whitespace.             *)
(***************************************************************************)
C3_SegmentsOfPagesWithText ==
    \A k \in 1..Len(uploaded_files) :
        LET up == uploaded_files[k]
        IN  (Processed(k) /\ PlainDocument(up) /\ Readable(up, password)) =>
                /\ ReturnedFor(k) # {}
                /\ \A r \in ReturnedFor(k) :
                      (\A i \in 1..Len(up.pages) : ~ContainsMarker(up.pages[i].text)) =>
                          /\ Segments(r[2]) <= Len(up.pages)
                          /\ Segments(r[2]) =
                                Cardinality({i \in 1..Len(up.pages) :
                                    up.pages[i].result = "text" /\ NonBlank(up.pages[i].text)})

\* a two-page document with one page of text and one page without has been
\* extracted: one segment
C3_Witness ==
    /\ pc = "idle"
    /\ \E r \in Range(returned) :
          LET up == uploaded_files[r[1]]
          IN  /\ PlainDocument(up)
              /\ up.pages = <<NoTextPage, TextPage(Hello)>>
              /\ Segments(r[2]) = 1

(***************************************************************************)
(* C5.  With the page separators turned off, the text shown for a          *)
(* document of more than one page holds no line "--- Página n ---" and is  *)
(* the text without separators: the page texts joined and stripped, no     *)
(* text of a page changed.                                                 *)
(***************************************************************************)
C5_AsIfNeverInserted ==
    \A k \in 1..Len(uploaded_files) :
        LET up == uploaded_files[k]
            texts == [i \in 1..Len(up.pages) |-> up.pages[i].text]
        IN  (Processed(k) /\ Readable(up, password) /\ Len(up.pages) > 1
             /\ ~show_page_headers) =>
                \A e \in TextAreaOf(up) :
                    /\ ~ContainsMarker(e.value)
                    /\ e.value = Strip(Join(texts))

(***************************************************************************)
(* C8.  For a document of exactly one page that yields a text, the text    *)
(* shown and offered for download is the stripped text of that page, with  *)
(* the page separators turned on and with them turned off.                 *)
(***************************************************************************)
C8_SinglePageUntouched ==
    \A k \in 1..Len(uploaded_files) :
        LET up == uploaded_files[k]
        IN  (Processed(k) /\ Readable(up, password) /\ Len(up.pages) = 1
             /\ up.pages[1].result = "text") =>
                /\ \A r \in ReturnedFor(k) : r[2] = Strip(up.pages[1].text)
                /\ \A e \in TextAreaOf(up) : e.value = Strip(up.pages[1].text)

\* the name with its final extension (what follows its last ".") replaced by
\* "txt"; a name without "." gets ".txt" appended
ExpectedTxtName(name) ==
    IF \E d \in 1..Len(name) : name[d] = "."
    THEN LET d == CHOOSE d \in 1..Len(name) :
                      name[d] = "." /\ \A j \in (d + 1)..Len(name) : name[j] # "."
         IN  SubSeq(name, 1, d - 1) \o <<".", "t", "x", "t">>
    ELSE name \o <<".", "t", "x", "t">>

(***************************************************************************)
(* C6.  When K > 1 documents of a run succeeded, the archive offered has   *)
(* exactly K entries, one per successful document in processing order;     *)
(* each is named after its source with the final extension replaced by     *)
(* ".txt" and holds the very bytes of the document's own download, the     *)
(* UTF-8 encoding of the text shown for it.  Names that map to the same    *)
(* entry name and names without "." are included.                          *)
(***************************************************************************)
C6_ArchiveEntries ==
    (LoopOver /\ pc \in {"logs", "idle"}) =>
        LET ok == ReadableUpTo(Len(uploaded_files))
        IN  Len(ok) > 1 =>
                /\ Len(archive) = Len(ok)
                /\ Len(Shown("download")) = Len(ok)
                /\ \A j \in 1..Len(ok) :
                      /\ archive[j].name = ExpectedTxtName(uploaded_files[ok[j]].name)
                      /\ Shown("download")[j].name = archive[j].name
                      /\ archive[j].data = Shown("download")[j].data
                      /\ Shown("text_area")[j].name = uploaded_files[ok[j]].name
                      /\ archive[j].data = EncodeUtf8(Shown("text_area")[j].value)

\* an archive of two entries has been offered, one made from a name without
\* "." and one from a name with two
C6_Witness ==
    /\ pc = "idle"
    /\ Len(archive) = 2
    /\ uploaded_files[1].name = NameNoDot
    /\ uploaded_files[2].name = NameTwoDots
    /\ archive[1].name = <<"b", ".", "t", "x", "t">>
    /\ archive[2].name = <<"c", ".", "d", ".", "t", "x", "t">>
    /\ archive[1].data # <<>>

(***************************************************************************)
(* C9.  The debug panel shows the log accumulated by the process: after an *)
(* execution that converted the uploaded documents, the panel holds a log  *)
(* line of every one of these extraction attempts.                         *)
(***************************************************************************)
C9_PanelShowsAttempts ==
    (pc = "idle" /\ run /\ uploaded_files # <<>>) =>
        \A k \in 1..Len(uploaded_files) :
            \E l \in Range(panel) : l.name = uploaded_files[k].name

====
